---------------------------- MODULE Spec2Model ----------------------------
(***************************************************************************)
(* Risk-scoring service of corporate-Risk-AI (src/backend/app.py, and the  *)
(* same pipeline in the Streamlit dashboard src/app.py).                   *)
(*                                                                         *)
(* Units.  Raw feature values, means and scaled values are integers        *)
(* counting tenths (9 is 0.9); scale_ counts tenths too (10 is 1.0).       *)
(* Probabilities and impacts are integers counting thousandths (400 is     *)
(* 0.40).  A JSON / CSV cell is a record [t, v]: a number, a string that   *)
(* spells a number ("0.9"), an empty CSV cell (NaN after read_csv) or a    *)
(* non-numeric text.                                                       *)
(***************************************************************************)
EXTENDS Integers, Sequences, FiniteSets

VARIABLES
    model,          \* data["model"], or None when the pickle was not found
    scaler,         \* data["scaler"]: [mean_, scale_], or None
    feature_names,  \* data["feature_names"], [] when the pickle was not found
    loaded,         \* history: the three globals as module import left them
    served,         \* history: how many requests have been answered
    request,        \* the request being answered (route and payload)
    transformed,    \* what the handler handed to scaler.transform, if it did
    response        \* the HTTP response of the handler

vars ==
    <<model, scaler, feature_names, loaded, served, request, transformed,
      response>>

----------------------------------------------------------------------------
(* Bounds of the model.                                                    *)

\* largest number of data rows of an uploaded CSV
MaxRows == 2

\* requests answered before the model stops taking new ones
MaxServed == 2

----------------------------------------------------------------------------
(* Cell values.                                                            *)

Num(n) == [t |-> "num", v |-> n]
Str(n) == [t |-> "str", v |-> n]
NaN == [t |-> "nan", v |-> 0]
Text == [t |-> "text", v |-> 0]

None == [kind |-> "None"]

THRESHOLD == 400

Abs(x) == IF x < 0 THEN -x ELSE x

Range(s) == {s[i] : i \in DOMAIN s}

\* position of name in the list of names, 0 when it is not in it
IndexOf(names, name) ==
    IF name \in Range(names)
    THEN CHOOSE i \in DOMAIN names : names[i] = name
    ELSE 0

Raise(msg) == [ok |-> FALSE, val |-> <<>>, err |-> msg]
Return(v) == [ok |-> TRUE, val |-> v, err |-> ""]

----------------------------------------------------------------------------
(* The fitted artifacts (opaque to the service: sklearn-style objects).    *)

\* sigmoid(z) in thousandths for z = -1.5, -1.4, ..., 1.5
SigmoidTable ==
    << 182, 198, 214, 231, 250, 269, 289, 310, 332, 354, 378, 401, 426, 450,
       475, 500, 525, 550, 574, 599, 622, 646, 668, 690, 711, 731, 750, 769,
       786, 802, 818 >>

Clamp(x, lo, hi) == IF x < lo THEN lo ELSE IF x > hi THEN hi ELSE x

\* a missing value counts as the scaled value the estimator learned to
\* route missing values to
RECURSIVE Dot(_, _, _)
Dot(w, row, missing) ==
    IF w = <<>> THEN 0
    ELSE Head(w) * (IF Head(row).t = "nan" THEN missing ELSE Head(row).v)
         + Dot(Tail(w), Tail(row), missing)

\* probability of the positive class for one scaled row
ProbaOfRow(m, row) ==
    LET z == Dot(m.w, row, m.missing)
    IN  IF m.kind = "sigmoid"
        THEN SigmoidTable[Clamp(z, -15, 15) + 16]
        ELSE Clamp(m.base + m.slope * z, 0, 1000)

HasNaN(X) == \E r \in DOMAIN X : \E i \in DOMAIN X[r] : X[r][i].t = "nan"

\* model.predict_proba(X)[:, 1]: estimators without missing-value support
\* reject NaN input, the others score it
predict_proba(m, X) ==
    IF HasNaN(X) /\ m.nan = "raise"
    THEN Raise("Input X contains NaN")
    ELSE Return([r \in DOMAIN X |-> ProbaOfRow(m, X[r])])

\* scaler.transform(X): validates (at least one sample, every cell
\* convertible to float, NaN let through), then (x - mean_) / scale_
transform(sc, X) ==
    IF Len(X) = 0
    THEN Raise("Found array with 0 sample(s)")
    ELSE IF \E r \in DOMAIN X : \E i \in DOMAIN X[r] : X[r][i].t = "text"
    THEN Raise("could not convert string to float")
    ELSE Return([r \in DOMAIN X |->
            [i \in DOMAIN X[r] |->
                IF X[r][i].t = "nan" THEN NaN
                ELSE Num(((X[r][i].v - sc.mean_[i]) * 10) \div sc.scale_[i])]])


----------------------------------------------------------------------------
(* pandas frames: the column names in order and the rows of cells.         *)

\* pd.DataFrame(values, columns=names)
DataFrame(values, names) == [columns |-> names, rows |-> values]

\* df[col] = value, for a scalar value: the column takes it in every row
SetItemScalar(df, col, value) ==
    LET c == IndexOf(df.columns, col)
    IN  [df EXCEPT !.rows = [r \in DOMAIN df.rows |->
                                [df.rows[r] EXCEPT ![c] = value]]]

\* df[col] = series, for a column of another frame with the same row index
SetItemSeries(df, col, series) ==
    LET c == IndexOf(df.columns, col)
    IN  [df EXCEPT !.rows = [r \in DOMAIN df.rows |->
                                [df.rows[r] EXCEPT ![c] = series[r]]]]

\* a bug: the frame is seeded with zeros instead of the means
ZeroRow(sc) == << [i \in DOMAIN sc.mean_ |-> Num(0)] >>

\* scaler.mean_.reshape(1, -1): one row holding the means
MeanRow(sc) == << [i \in DOMAIN sc.mean_ |-> Num(sc.mean_[i])] >>

\* a bug: the matrix is seeded with zeros instead of the means
ZeroMatrix(sc, n_rows) ==
    [r \in 1..n_rows |-> [i \in DOMAIN sc.mean_ |-> Num(0)]]

\* np.tile(scaler.mean_, (n_rows, 1)): n_rows copies of the row of means
MeanMatrix(sc, n_rows) ==
    [r \in 1..n_rows |-> [i \in DOMAIN sc.mean_ |-> Num(sc.mean_[i])]]

----------------------------------------------------------------------------
(* predict_single, step by step.                                           *)

\* for col, value in user_data.items(): if col in input_df.columns: ...
RECURSIVE UpdateFromUserData(_, _)
UpdateFromUserData(input_df, user_data) ==
    IF DOMAIN user_data = {} THEN input_df
    ELSE LET col == CHOOSE k \in DOMAIN user_data : TRUE
             rest == [k \in DOMAIN user_data \ {col} |-> user_data[k]]
             next == IF col \in Range(input_df.columns)
                     THEN SetItemScalar(input_df, col, user_data[col])
                     ELSE input_df
         IN  UpdateFromUserData(next, rest)

\* the frame handed to scaler.transform by predict_single
SingleInputFrame(sc, names, user_data) ==
    UpdateFromUserData(DataFrame(MeanRow(sc), names), user_data)

\* a bug: the column updates write through the frame into scaler.mean_
ScalerWrittenThrough(sc, names, user_data) ==
    [sc EXCEPT !.mean_ =
        [i \in DOMAIN sc.mean_ |->
            IF names[i] \in DOMAIN user_data
            THEN user_data[names[i]].v ELSE sc.mean_[i]]]

\* what the seeding and the column updates of one request leave in the
\* shared scaler: the frame is built over a view of scaler.mean_, and
\* df[col] = value installs a new column array in the frame instead of
\* writing into the array under it, so the scaler keeps its values
ScalerAfterRequest(sc, names, user_data) == sc

\* one entry of feature_impacts
ImpactEntry(name, value, mean) ==
    [feature |-> name, value |-> value.v, impact |-> (value.v - mean) * 10]

\* the loop over enumerate(feature_names): the subtraction raises TypeError
\* on a value that is not a number
RECURSIVE ImpactsUpTo(_, _, _, _)
ImpactsUpTo(i, sc, names, user_data) ==
    IF i = 0 THEN <<>>
    ELSE LET before == ImpactsUpTo(i - 1, sc, names, user_data)
         IN  IF names[i] \in DOMAIN user_data
             THEN Append(before,
                         ImpactEntry(names[i], user_data[names[i]], sc.mean_[i]))
             ELSE before

FeatureImpacts(sc, names, user_data) ==
    IF \E i \in DOMAIN names :
           names[i] \in DOMAIN user_data /\ user_data[names[i]].t # "num"
    THEN Raise("TypeError: unsupported operand type(s) for -")
    ELSE Return(ImpactsUpTo(Len(names), sc, names, user_data))

\* a bug: the sort key is the signed impact
RECURSIVE SortBySignedImpact(_)
SortBySignedImpact(s) ==
    IF s = <<>> THEN <<>>
    ELSE LET n == Len(s)
             x == s[n]
             done == SortBySignedImpact(SubSeq(s, 1, n - 1))
             keep == Cardinality({j \in DOMAIN done : done[j].impact >= x.impact})
         IN  SubSeq(done, 1, keep) \o <<x>> \o SubSeq(done, keep + 1, n - 1)

\* list.sort(key=lambda x: abs(x['impact']), reverse=True): stable, entries
\* of equal key keep their order
RECURSIVE SortByAbsImpact(_)
SortByAbsImpact(s) ==
    IF s = <<>> THEN <<>>
    ELSE LET n == Len(s)
             x == s[n]
             done == SortByAbsImpact(SubSeq(s, 1, n - 1))
             keep == Cardinality({j \in DOMAIN done :
                                     Abs(done[j].impact) >= Abs(x.impact)})
         IN  SubSeq(done, 1, keep) \o <<x>> \o SubSeq(done, keep + 1, n - 1)

\* feature_impacts[:5]
TopK == 5

Truncate(s) == SubSeq(s, 1, IF Len(s) < TopK THEN Len(s) ELSE TopK)

\* a bug: the comparison takes the threshold itself as high risk
IsHighRiskInclusive(probability) == probability >= THRESHOLD

\* probability > THRESHOLD
IsHighRisk(probability) == probability > THRESHOLD

ModelNotLoaded == [status |-> 500, body |-> [error |-> "Model not loaded"]]

BadRequest(msg) == [status |-> 400, body |-> [error |-> msg]]

Ok(body) == [status |-> 200, body |-> body]

\* the response of predict_single
SingleResponse(m, sc, names, user_data) ==
    IF m = None THEN ModelNotLoaded
    ELSE LET input_df == SingleInputFrame(sc, names, user_data)
             input_scaled == transform(sc, input_df.rows)
         IN  IF ~input_scaled.ok THEN BadRequest(input_scaled.err)
             ELSE LET proba == predict_proba(m, input_scaled.val)
                  IN  IF ~proba.ok THEN BadRequest(proba.err)
                      ELSE LET probability == proba.val[1]
                               impacts == FeatureImpacts(sc, names, user_data)
                           IN  IF ~impacts.ok THEN BadRequest(impacts.err)
                               ELSE Ok([probability |-> probability,
                                        isHighRisk |-> IsHighRisk(probability),
                                        threshold |-> THRESHOLD,
                                        featureImpacts |->
                                            Truncate(SortByAbsImpact(impacts.val))])

NotCalled == [called |-> FALSE, X |-> <<>>]
Called(X) == [called |-> TRUE, X |-> X]

----------------------------------------------------------------------------
(* predict_batch, step by step.  batch_df is the frame read_csv returns:   *)
(* [n: number of rows, columns: set of names, col: name -> cells].         *)

\* for col in batch_df.columns: if col in aligned_df.columns: ...
RECURSIVE AlignColumns(_, _, _)
AlignColumns(aligned_df, batch_df, todo) ==
    IF todo = {} THEN aligned_df
    ELSE LET col == CHOOSE c \in todo : TRUE
             next == IF col \in Range(aligned_df.columns)
                     THEN SetItemSeries(aligned_df, col, batch_df.col[col])
                     ELSE aligned_df
         IN  AlignColumns(next, batch_df, todo \ {col})

\* the frame handed to scaler.transform by predict_batch
AlignedFrame(sc, names, batch_df) ==
    AlignColumns(DataFrame(MeanMatrix(sc, batch_df.n), names),
                 batch_df, batch_df.columns)

\* 'HIGH RISK' if risk_score > THRESHOLD else 'Stable'
StatusOf(risk_score) == IF risk_score > THRESHOLD THEN "HIGH RISK" ELSE "Stable"

\* row.to_dict() of row r of batch_df
RowDict(batch_df, r) == [c \in batch_df.columns |-> batch_df.col[c][r]]

\* the results list built over batch_df.iterrows(): i is the 0-based label
BatchResults(batch_df, probabilities) ==
    [r \in 1..batch_df.n |->
        LET i == r - 1
        IN  [id |-> i + 1,
             riskScore |-> probabilities[r],
             status |-> StatusOf(probabilities[r]),
             data |-> RowDict(batch_df, r)]]

RECURSIVE SumSeq(_)
SumSeq(s) == IF s = <<>> THEN 0 ELSE Head(s) + SumSeq(Tail(s))

\* probabilities.mean(), kept exact as sum over count
Mean(probabilities) == [num |-> SumSeq(probabilities), den |-> Len(probabilities)]

\* a bug: the count looks for a label the rows never carry
HighRiskCountWrongLabel(results) ==
    Cardinality({r \in DOMAIN results : results[r].status = "High Risk"})

\* sum(1 for r in results if r['status'] == 'HIGH RISK')
HighRiskCount(results) ==
    Cardinality({r \in DOMAIN results : results[r].status = "HIGH RISK"})

BatchSummary(results, probabilities) ==
    LET high_risk_count == HighRiskCount(results)
    IN  [totalCompanies |-> Len(results),
         highRiskCount |-> high_risk_count,
         stableCount |-> Len(results) - high_risk_count,
         averageRisk |-> Mean(probabilities)]

\* the try block of predict_batch, entered with a loaded model
BatchTry(m, sc, names, hasFile, batch_df) ==
    IF ~hasFile THEN BadRequest("No file provided")
    ELSE LET aligned_df == AlignedFrame(sc, names, batch_df)
             batch_scaled == transform(sc, aligned_df.rows)
         IN  IF ~batch_scaled.ok THEN BadRequest(batch_scaled.err)
             ELSE LET proba == predict_proba(m, batch_scaled.val)
                  IN  IF ~proba.ok THEN BadRequest(proba.err)
                      ELSE LET results == BatchResults(batch_df, proba.val)
                           IN  Ok([results |-> results,
                                   summary |-> BatchSummary(results, proba.val)])

\* a bug: the handler enters the try block without looking at model, and
\* with no model the first use of the scaler, which is None, raises
BatchResponseUnguarded(m, sc, names, hasFile, batch_df) ==
    IF m # None THEN BatchTry(m, sc, names, hasFile, batch_df)
    ELSE IF ~hasFile THEN BadRequest("No file provided")
    ELSE BadRequest("'NoneType' object has no attribute 'mean_'")

\* the response of predict_batch
BatchResponse(m, sc, names, hasFile, batch_df) ==
    IF m = None THEN ModelNotLoaded
    ELSE BatchTry(m, sc, names, hasFile, batch_df)

----------------------------------------------------------------------------
(* What the pickle may hold, and what callers may send.                    *)

Linear(w, base, slope, nan, missing) ==
    [kind |-> "linear", w |-> w, base |-> base, slope |-> slope, nan |-> nan,
     missing |-> missing]
Sigmoid(w, nan, missing) ==
    [kind |-> "sigmoid", w |-> w, base |-> 0, slope |-> 0, nan |-> nan,
     missing |-> missing]

\* three fitted bundles: the two-feature schema with a sigmoid(2A - B)
\* classifier that rejects NaN; the same schema with a classifier that puts
\* the mean company exactly on the threshold and scores NaN as it scores the
\* mean; a six-feature schema with unequal scales and a classifier that
\* routes NaN to the low side
Artifacts ==
    { [model |-> Sigmoid(<<2, -1>>, "raise", 0),
       scaler |-> [mean_ |-> <<5, 3>>, scale_ |-> <<10, 10>>],
       feature_names |-> <<"A", "B">>],
      [model |-> Linear(<<2, -1>>, 400, 10, "missing", 0),
       scaler |-> [mean_ |-> <<5, 3>>, scale_ |-> <<10, 10>>],
       feature_names |-> <<"A", "B">>],
      [model |-> Sigmoid(<<1, -1, 0, 1, 0, -1>>, "missing", -5),
       scaler |-> [mean_ |-> <<5, 3, 5, 2, 7, 5>>,
                   scale_ |-> <<10, 5, 10, 10, 5, 10>>],
       feature_names |-> <<"A", "B", "C", "D", "E", "F">>] }

\* the except FileNotFoundError branch
NotFound == [model |-> None, scaler |-> None, feature_names |-> <<>>]

Absent == [t |-> "absent", v |-> 0]

Keys == {"A", "B", "C", "D", "E", "F", "X"}

\* the JSON objects a caller may post: any subset of the keys, "X" never a
\* feature name, "A" possibly a string spelling a number
RawInputs ==
    { LET all == [k \in Keys |->
                    CASE k = "A" -> a [] k = "B" -> b [] k = "C" -> c
                      [] k = "D" -> d [] k = "E" -> e [] k = "F" -> f
                      [] OTHER -> x]
      IN  [k \in {k \in Keys : all[k] # Absent} |-> all[k]] :
        a \in {Absent, Num(1), Num(9), Str(9)},
        b \in {Absent, Num(1), Num(9)},
        c \in {Absent, Num(1), Num(9)},
        d \in {Absent, Num(1), Num(9)},
        e \in {Absent, Num(1), Num(9)},
        f \in {Absent, Num(1), Num(9)},
        x \in {Absent, Num(1)} }

Columns == {"A", "B", "X"}

CellsOf(c) ==
    CASE c = "A" -> {Num(1), Num(9), NaN, Text}
      [] c = "B" -> {Num(9), NaN}
      [] OTHER -> {Num(1), Text}

\* the frames read_csv may return: 0..MaxRows rows under a header naming
\* one or more of Columns
Tables ==
    UNION { UNION { { [n |-> n, columns |-> S,
                       col |-> [c \in S |-> CASE c = "A" -> a
                                              [] c = "B" -> b
                                              [] OTHER -> x]] :
                        a \in [1..n -> CellsOf("A")],
                        b \in [1..n -> CellsOf("B")],
                        x \in [1..n -> CellsOf("X")] } :
                    S \in (SUBSET Columns) \ {{}} } :
            n \in 0..MaxRows }

NoTable == [n |-> 0, columns |-> {}, col |-> <<>>]

----------------------------------------------------------------------------
(* The service.                                                            *)

Idle == [route |-> "none"]
NoResponse == [status |-> 0, body |-> <<>>]

\* module import: load_model() and the three globals
Init ==
    /\ \E data \in Artifacts \cup {NotFound} :
          /\ model = data.model
          /\ scaler = data.scaler
          /\ feature_names = data.feature_names
          /\ loaded = data
    /\ served = 0
    /\ request = Idle
    /\ transformed = NotCalled
    /\ response = NoResponse

\* POST /api/predict/single
predict_single ==
    /\ request = Idle
    /\ served < MaxServed
    /\ \E user_data \in RawInputs :
          /\ request' = [route |-> "single", user_data |-> user_data]
          /\ response' = SingleResponse(model, scaler, feature_names, user_data)
          /\ transformed' =
                IF model = None THEN NotCalled
                ELSE Called(SingleInputFrame(scaler, feature_names, user_data).rows)
          /\ scaler' =
                IF model = None THEN scaler
                ELSE ScalerAfterRequest(scaler, feature_names, user_data)
    /\ UNCHANGED <<model, feature_names, loaded, served>>

\* POST /api/predict/batch
predict_batch ==
    /\ request = Idle
    /\ served < MaxServed
    /\ \E hasFile \in BOOLEAN :
       \E batch_df \in (IF hasFile THEN Tables ELSE {NoTable}) :
          /\ request' = [route |-> "batch", hasFile |-> hasFile,
                         batch_df |-> batch_df]
          /\ response' = BatchResponse(model, scaler, feature_names,
                                       hasFile, batch_df)
          /\ transformed' =
                IF model = None \/ ~hasFile THEN NotCalled
                ELSE Called(AlignedFrame(scaler, feature_names, batch_df).rows)
    /\ UNCHANGED <<model, scaler, feature_names, loaded, served>>

\* the response is sent and the handler's locals are gone
EndRequest ==
    /\ request # Idle
    /\ request' = Idle
    /\ transformed' = NotCalled
    /\ response' = NoResponse
    /\ served' = served + 1
    /\ UNCHANGED <<model, scaler, feature_names, loaded>>

Next == predict_single \/ predict_batch \/ EndRequest

Spec == Init /\ [][Next]_vars

----------------------------------------------------------------------------
(* Properties.                                                             *)

SingleScored == request # Idle /\ request.route = "single" /\ transformed.called
BatchScored == request # Idle /\ request.route = "batch" /\ transformed.called
SingleOk == request # Idle /\ request.route = "single" /\ response.status = 200
BatchOk == request # Idle /\ request.route = "batch" /\ response.status = 200

\* C1: the vector predict_single hands to the scaler has one entry per schema
\* feature, in schema order; entry i is the posted value of feature i when
\* the input has that key and the loaded mean of feature i otherwise; keys
\* that are no feature names leave no trace in it.
C1_VectorBuilding ==
    SingleScored =>
        /\ Len(transformed.X) = 1
        /\ DOMAIN transformed.X[1] = 1..Len(loaded.feature_names)
        /\ \A i \in 1..Len(loaded.feature_names) :
              transformed.X[1][i] =
                 IF loaded.feature_names[i] \in DOMAIN request.user_data
                 THEN request.user_data[loaded.feature_names[i]]
                 ELSE Num(loaded.scaler.mean_[i])

\* a scored input with one feature supplied, one defaulted and an unknown key
C1_Witness ==
    /\ SingleScored
    /\ loaded.feature_names = <<"A", "B">>
    /\ DOMAIN request.user_data = {"A", "X"}
    /\ transformed.X[1] = <<Num(9), Num(3)>>

\* C2: every answer reports high risk exactly when the probability is
\* strictly above 0.40 (so exactly 0.40 is Stable), in predict_single and in
\* every row of predict_batch, and predict_single returns 0.40 as threshold.
C2_Classification ==
    /\ SingleOk =>
          /\ response.body.isHighRisk = (response.body.probability > 400)
          /\ response.body.threshold = 400
    /\ BatchOk =>
          \A r \in DOMAIN response.body.results :
             (response.body.results[r].status = "HIGH RISK")
                = (response.body.results[r].riskScore > 400)

\* a probability of exactly 0.40 answered as not high risk
C2_Witness ==
    /\ SingleOk
    /\ response.body.probability = 400
    /\ ~response.body.isHighRisk

\* C3: the matrix predict_batch hands to the scaler has one row per table
\* row and one column per schema feature in schema order; a feature that is
\* a table column holds the row's table value, a feature that is no table
\* column holds the loaded mean, and no other table column enters it.
C3_BatchAlignment ==
    BatchScored =>
        /\ Len(transformed.X) = request.batch_df.n
        /\ \A r \in 1..request.batch_df.n :
              /\ DOMAIN transformed.X[r] = 1..Len(loaded.feature_names)
              /\ \A i \in 1..Len(loaded.feature_names) :
                    transformed.X[r][i] =
                       IF loaded.feature_names[i] \in request.batch_df.columns
                       THEN request.batch_df.col[loaded.feature_names[i]][r]
                       ELSE Num(loaded.scaler.mean_[i])

\* two rows, one schema column and one other column in the table
C3_Witness ==
    /\ BatchScored
    /\ loaded.feature_names = <<"A", "B">>
    /\ request.batch_df.n = 2
    /\ request.batch_df.columns = {"A", "X"}
    /\ transformed.X = << <<Num(1), Num(3)>>, <<Num(9), Num(3)>> >>

\* the table [{A:0.1},{A:0.9,B:0.9}] as read_csv returns it
C4_Table ==
    [n |-> 2, columns |-> {"A", "B"},
     col |-> [c \in {"A", "B"} |->
                IF c = "A" THEN <<Num(1), Num(9)>> ELSE <<NaN, Num(9)>>]]

\* C4: a table row with no value for a schema feature that the table has as
\* a column is scored with that feature at its mean; for the schema
\* [A (0.5), B (0.3)] with the sigmoid(2A - B) classifier and the table
\* [{A:0.1},{A:0.9,B:0.9}], row 0 is scored on [0.1, 0.3] and Stable, row 1
\* on [0.9, 0.9] and HighRisk, and the summary is 2 rows, 1 high risk,
\* 1 stable.
C4_PerRowDefault ==
    /\ BatchScored =>
          \A r \in 1..request.batch_df.n :
             \A i \in 1..Len(loaded.feature_names) :
                (/\ loaded.feature_names[i] \in request.batch_df.columns
                 /\ request.batch_df.col[loaded.feature_names[i]][r] = NaN
                 /\ \E q \in 1..request.batch_df.n :
                       request.batch_df.col[loaded.feature_names[i]][q].t = "num")
                   => transformed.X[r][i] = Num(loaded.scaler.mean_[i])
    /\ (/\ BatchScored
        /\ request.batch_df = C4_Table
        /\ loaded.feature_names = <<"A", "B">>
        /\ loaded.model.kind = "sigmoid")
          => /\ transformed.X = << <<Num(1), Num(3)>>, <<Num(9), Num(9)>> >>
             /\ response.status = 200
             /\ response.body.results[1].status = "Stable"
             /\ response.body.results[2].status = "HIGH RISK"
             /\ response.body.summary.totalCompanies = 2
             /\ response.body.summary.highRiskCount = 1
             /\ response.body.summary.stableCount = 1

\* the probability a single request's vector scores, when scaling and
\* prediction both succeed
ScoredProbability ==
    LET input_scaled == transform(loaded.scaler, transformed.X)
    IN  IF ~input_scaled.ok THEN Raise(input_scaled.err)
        ELSE LET proba == predict_proba(loaded.model, input_scaled.val)
             IN  IF ~proba.ok THEN Raise(proba.err) ELSE Return(proba.val[1])

\* C5: whenever predict_single computed the probability, the caller gets the
\* probability and the status, also when the attribution then fails.
C5_ScoreSurvivesAttribution ==
    (SingleScored /\ ScoredProbability.ok) =>
        /\ response.status = 200
        /\ response.body.probability = ScoredProbability.val
        /\ response.body.isHighRisk = (ScoredProbability.val > 400)

C7_ModelUnavailable ==
    loaded.model = None =>
        /\ model = None
        /\ request # Idle =>
              /\ response = ModelNotLoaded
              /\ transformed = NotCalled

\* a batch upload refused after an earlier request was refused
C7_Witness ==
    /\ loaded.model = None
    /\ served >= 1
    /\ request # Idle
    /\ request.route = "batch"
    /\ request.hasFile
    /\ response.status = 500

\* positions of the schema features the caller supplied
Supplied == {i \in DOMAIN loaded.feature_names :
                loaded.feature_names[i] \in DOMAIN request.user_data}

\* (rawValue - mean[i]) * 0.1, in thousandths
ExpectedImpact(i) ==
    (request.user_data[loaded.feature_names[i]].v - loaded.scaler.mean_[i]) * 10

\* C8: the attribution predict_single returns has at most 5 entries, in
\* non-increasing order of absolute impact; its entries are distinct
\* supplied schema features with the supplied value and the impact
\* (value - mean) * 0.1; it leaves out a supplied feature only when 5 are
\* returned, and never one of larger absolute impact than a returned one.
C8_Attribution ==
    SingleOk =>
        LET fi == response.body.featureImpacts
            returned == {i \in Supplied :
                            \E j \in DOMAIN fi :
                               fi[j].feature = loaded.feature_names[i]}
        IN  /\ Len(fi) <= 5
            /\ Len(fi) = IF Cardinality(Supplied) < 5
                         THEN Cardinality(Supplied) ELSE 5
            /\ \A j, k \in DOMAIN fi :
                  j < k => /\ Abs(fi[j].impact) >= Abs(fi[k].impact)
                           /\ fi[j].feature # fi[k].feature
            /\ \A j \in DOMAIN fi :
                  \E i \in Supplied :
                     /\ fi[j].feature = loaded.feature_names[i]
                     /\ fi[j].value = request.user_data[fi[j].feature].v
                     /\ fi[j].impact = ExpectedImpact(i)
            /\ \A i \in Supplied \ returned :
                  \A j \in DOMAIN fi :
                     Abs(ExpectedImpact(i)) <= Abs(fi[j].impact)

\* six supplied features and an unknown key: five returned, three of them
\* tied and in schema order, the smallest absolute impact (D) left out
C8_Witness ==
    /\ SingleOk
    /\ DOMAIN request.user_data = Keys
    /\ Len(response.body.featureImpacts) = 5
    /\ [j \in 1..5 |-> response.body.featureImpacts[j].feature]
          = <<"E", "A", "C", "F", "B">>
    /\ [j \in 1..5 |-> response.body.featureImpacts[j].impact]
          = <<-60, 40, -40, 40, -20>>

\* C9: a scored table of N rows is answered with totalCompanies N,
\* highRiskCount the number of rows with status HIGH RISK, stableCount the
\* rest, every row with one of the two statuses, and averageRisk the sum of
\* the row probabilities over N.
C9_BatchSummary ==
    BatchOk =>
        LET results == response.body.results
            summary == response.body.summary
            N == request.batch_df.n
            high == {r \in DOMAIN results : results[r].riskScore > 400}
        IN  /\ Len(results) = N
            /\ summary.totalCompanies = N
            /\ summary.highRiskCount = Cardinality(high)
            /\ summary.stableCount = N - Cardinality(high)
            /\ summary.highRiskCount + summary.stableCount = N
            /\ summary.highRiskCount \in 0..N
            /\ summary.stableCount \in 0..N
            /\ \A r \in DOMAIN results :
                  /\ results[r].status \in {"Stable", "HIGH RISK"}
                  /\ (results[r].status = "HIGH RISK") <=> r \in high
            /\ summary.averageRisk.den = N
            /\ summary.averageRisk.num = SumSeq([r \in 1..N |-> results[r].riskScore])

\* two rows, one of each status
C9_Witness ==
    /\ BatchOk
    /\ request.batch_df.n = 2
    /\ response.body.results[1].status = "Stable"
    /\ response.body.results[2].status = "HIGH RISK"
    /\ response.body.summary.highRiskCount = 1
    /\ response.body.summary.stableCount = 1

\* C10: an upload with a header and no rows is answered with a result whose
\* counts are all 0 and whose averageRisk is undefined, not with an error.
C10_EmptyBatch ==
    (/\ request # Idle
     /\ request.route = "batch"
     /\ request.hasFile
     /\ request.batch_df.n = 0
     /\ loaded.model # None)
       => /\ response.status = 200
          /\ response.body.summary.totalCompanies = 0
          /\ response.body.summary.highRiskCount = 0
          /\ response.body.summary.stableCount = 0
          /\ response.body.summary.averageRisk.den = 0

\* the mapping made of the values row r of the table has: its empty cells
\* are keys the mapping does not have
RowMapping(batch_df, r) ==
    [c \in {c \in batch_df.columns : batch_df.col[c][r] # NaN} |->
        batch_df.col[c][r]]

\* what predict_single answers for row r of the table in the request
SingleOfRow(r) ==
    SingleResponse(loaded.model, loaded.scaler, loaded.feature_names,
                   RowMapping(request.batch_df, r))

\* C11: entry k of a batch answer has id k + 1 (k counted from 0), carries
\* row k of the table, and has the probability and the status predict_single
\* answers for the mapping made of that row's values; the answer has one
\* entry per row, in the table's order.
C11_BatchAsSingle ==
    BatchOk =>
        /\ Len(response.body.results) = request.batch_df.n
        /\ \A r \in 1..request.batch_df.n :
              LET entry == response.body.results[r]
                  single == SingleOfRow(r)
              IN  /\ entry.id = (r - 1) + 1
                  /\ entry.data = RowDict(request.batch_df, r)
                  /\ single.status = 200
                  /\ entry.riskScore = single.body.probability
                  /\ (entry.status = "HIGH RISK") = single.body.isHighRisk

\* the rows of the table in the request that have every value of the
\* schema columns the table has
NoEmptyCells ==
    \A r \in 1..request.batch_df.n :
       \A c \in request.batch_df.columns :
          c \in Range(loaded.feature_names) => request.batch_df.col[c][r] # NaN

\* C11 on the tables it holds for: those without an empty cell in a schema
\* column
C11_BatchAsSingleNoEmptyCells == (BatchOk /\ NoEmptyCells) => C11_BatchAsSingle

============================================================================
